---- MODULE Spec2Model ----
(***************************************************************************)
(* Model of bybit_rebalance_perp.py: the ledger accumulator                *)
(* (LedgerPnLTracker) and the rebalance tick (compute_and_maybe_rebalance).*)
(*                                                                         *)
(* Python floats are modelled by exact rationals [n |-> Int, d |-> Nat],   *)
(* kept in lowest terms; ledger amounts are integers.  Rounding error of   *)
(* IEEE doubles is therefore outside the model.                            *)
(***************************************************************************)
EXTENDS Integers, Naturals, Sequences, FiniteSets, TLC

VARIABLES
    seen_ids,       \* LedgerPnLTracker.seen_ids
    realized,       \* LedgerPnLTracker.realized
    funding_paid,   \* LedgerPnLTracker.funding_paid
    fees_paid,      \* LedgerPnLTracker.fees_paid
    call,           \* the last direct call on the tracker, with the state before it
    config,         \* the module-level switches DRY_RUN and ALLOW_SHORT
    market,         \* what fetch_ohlcv and get_price returned to the last tick
    position,       \* the exchange's position, signed: > 0 long, < 0 short
    tick,           \* the last run of compute_and_maybe_rebalance: its locals
    log_rows,       \* data rows appended to CSV_LOG_FILE
    orders          \* orders the exchange accepted

ledger_vars == <<seen_ids, realized, funding_paid, fees_paid>>

vars == <<seen_ids, realized, funding_paid, fees_paid, call,
          config, market, position, tick, log_rows, orders>>

(***************************************************************************)
(* Bounds of the model                                                     *)
(***************************************************************************)
MaxId == 2          \* ledger entry ids are 1..MaxId
MaxBatch == 2       \* longest ledger batch handed to ingest_ledger_batch
MaxRows == 2        \* log rows (ticks run to the end) the tick specification explores

(***************************************************************************)
(* Numbers: a float is the exact rational n/d in lowest terms, d > 0.      *)
(* None (Python's None for a number) is the record with d = 0.             *)
(* An operator binds its operands to their values (a, b) before it uses    *)
(* them, as a Python call evaluates its arguments once.                    *)
(***************************************************************************)
None == [n |-> 0, d |-> 0]

Abs(x) == IF x < 0 THEN -x ELSE x

RECURSIVE GCD(_, _)
GCD(a, b) ==
    IF b = 0 THEN a ELSE CHOOSE g \in {GCD(b, r) : r \in {a % b}} : TRUE

LCM(a, b) == (a \div GCD(a, b)) * b

Rat(n, d) ==
    CHOOSE r \in {[n |-> a \div g, d |-> b \div g] :
                  <<a, b, g>> \in {<<n, d, GCD(Abs(n), d)>>}} : TRUE

RInt(i) == [n |-> i, d |-> 1]

RNeg(x) == CHOOSE r \in {[n |-> -a.n, d |-> a.d] : a \in {x}} : TRUE

RAddAt(a, b, l) == Rat(a.n * (l \div a.d) + b.n * (l \div b.d), l)

RAdd(x, y) ==
    CHOOSE r \in UNION {{RAddAt(a, b, l) : l \in {LCM(a.d, b.d)}} :
                        <<a, b>> \in {<<x, y>>}} : TRUE

RSub(x, y) == RAdd(x, RNeg(y))

RMulAt(a, b, g1, g2) ==
    IF a.n = 0 \/ b.n = 0
    THEN RInt(0)
    ELSE [n |-> (a.n \div g1) * (b.n \div g2), d |-> (a.d \div g2) * (b.d \div g1)]

RMul(x, y) ==
    CHOOSE r \in UNION {{RMulAt(a, b, g1, g2) :
                            g1 \in {GCD(Abs(a.n), b.d)}, g2 \in {GCD(Abs(b.n), a.d)}} :
                        <<a, b>> \in {<<x, y>>}} : TRUE

RInv(x) ==
    CHOOSE r \in {IF a.n > 0 THEN [n |-> a.d, d |-> a.n]
                  ELSE [n |-> -a.d, d |-> -a.n] : a \in {x}} : TRUE

RDiv(x, y) == RMul(x, RInv(y))

RLtAt(a, b, l) == a.n * (l \div a.d) < b.n * (l \div b.d)

RLt(x, y) ==
    CHOOSE r \in UNION {{RLtAt(a, b, l) : l \in {LCM(a.d, b.d)}} :
                        <<a, b>> \in {<<x, y>>}} : TRUE

RLe(x, y) == ~RLt(y, x)

RMin(x, y) == CHOOSE r \in {IF RLt(b, a) THEN b ELSE a : a \in {x}, b \in {y}} : TRUE

RMax(x, y) == CHOOSE r \in {IF RLt(a, b) THEN b ELSE a : a \in {x}, b \in {y}} : TRUE

RAbs(x) == CHOOSE r \in {[n |-> Abs(a.n), d |-> a.d] : a \in {x}} : TRUE

RFloor(x) == CHOOSE r \in {a.n \div a.d : a \in {x}} : TRUE

(***************************************************************************)
(* Text: a str is a tuple of one-character strings; str.lower()            *)
(***************************************************************************)
UpperLetters ==
    <<"A","B","C","D","E","F","G","H","I","J","K","L","M",
      "N","O","P","Q","R","S","T","U","V","W","X","Y","Z">>

LowerLetters ==
    <<"a","b","c","d","e","f","g","h","i","j","k","l","m",
      "n","o","p","q","r","s","t","u","v","w","x","y","z">>

\* upper-case letter -> lower-case letter
ToLower ==
    [c \in {UpperLetters[i] : i \in DOMAIN UpperLetters} |->
        LowerLetters[CHOOSE i \in DOMAIN UpperLetters : UpperLetters[i] = c]]

lower_char(c) == IF c \in DOMAIN ToLower THEN ToLower[c] ELSE c

\* mutant of lower: the type is compared as received
lower_identity(s) == s

lower(s) == [i \in DOMAIN s |-> lower_char(s[i])]

REALIZED_TYPES ==
    { <<"r","e","a","l","i","z","e","d","_","p","n","l">>,
      <<"p","n","l">>,
      <<"p","r","o","f","i","t","_","a","n","d","_","l","o","s","s">>,
      <<"s","e","t","t","l","e","m","e","n","t">> }

FUNDING_TYPE == <<"f","u","n","d","i","n","g","_","f","e","e">>

FEE_TYPES ==
    { <<"t","r","a","d","e","_","f","e","e">>, <<"f","e","e">> }

(***************************************************************************)
(* LedgerPnLTracker                                                        *)
(***************************************************************************)
Tracker ==
    [seen_ids |-> seen_ids, realized |-> realized,
     funding_paid |-> funding_paid, fees_paid |-> fees_paid]

NewTracker ==
    [seen_ids |-> {}, realized |-> 0, funding_paid |-> 0, fees_paid |-> 0]

\* mutant of classify: a fee keeps its sign
classify_signed_fee(t, entry_type, amount) ==
    IF entry_type \in REALIZED_TYPES
    THEN [t EXCEPT !.realized = @ + amount]
    ELSE IF entry_type = FUNDING_TYPE
    THEN [t EXCEPT !.funding_paid = @ + amount]
    ELSE IF entry_type \in FEE_TYPES
    THEN [t EXCEPT !.fees_paid = @ + amount]
    ELSE t

\* mutant of classify: realized is assigned, not accumulated
classify_overwrite(t, entry_type, amount) ==
    IF entry_type \in REALIZED_TYPES
    THEN [t EXCEPT !.realized = amount]
    ELSE IF entry_type = FUNDING_TYPE
    THEN [t EXCEPT !.funding_paid = @ + amount]
    ELSE IF entry_type \in FEE_TYPES
    THEN [t EXCEPT !.fees_paid = @ + Abs(amount)]
    ELSE t

\* the if/elif chain of ingest_ledger_entry, on the lower-cased type
classify(t, entry_type, amount) ==
    IF entry_type \in REALIZED_TYPES
    THEN [t EXCEPT !.realized = @ + amount]
    ELSE IF entry_type = FUNDING_TYPE
    THEN [t EXCEPT !.funding_paid = @ + amount]
    ELSE IF entry_type \in FEE_TYPES
    THEN [t EXCEPT !.fees_paid = @ + Abs(amount)]
    ELSE t

\* mutant of ingest_ledger_entry: no check of seen_ids
ingest_ledger_entry_no_dedup(t, entry) ==
    classify([t EXCEPT !.seen_ids = @ \cup {entry.id}],
             lower(entry.type), entry.amount)

ingest_ledger_entry(t, entry) ==
    IF entry.id \in t.seen_ids
    THEN t
    ELSE classify([t EXCEPT !.seen_ids = @ \cup {entry.id}],
                  lower(entry.type), entry.amount)

RECURSIVE ingest_ledger_batch(_, _)
ingest_ledger_batch(t, ledger) ==
    IF ledger = <<>>
    THEN t
    ELSE ingest_ledger_batch(ingest_ledger_entry(t, Head(ledger)), Tail(ledger))

(***************************************************************************)
(* Ledger entries handed to the tracker                                    *)
(***************************************************************************)
Ids == 1..MaxId

Amounts == {-5, 3}

OTHER_TYPES ==
    { <<"F","E","E">>, <<"T","r","a","d","e","_","F","e","e">>,
      <<"P","n","L">>, <<"F","u","n","d","i","n","g","_","F","e","e">>,
      <<"t","r","a","n","s","f","e","r">>, <<>> }

EntryTypes == REALIZED_TYPES \cup {FUNDING_TYPE} \cup FEE_TYPES \cup OTHER_TYPES

Entries == [id : Ids, type : EntryTypes, amount : Amounts]

\* The exchange's ledger is append-only and keyed by id: the entry of an id
\* never changes between fetches.
LedgerPattern ==
    << [type |-> <<"P","n","L">>, amount |-> 3],
       [type |-> <<"s","e","t","t","l","e","m","e","n","t">>, amount |-> -5],
       [type |-> <<"F","E","E">>, amount |-> -5],
       [type |-> FUNDING_TYPE, amount |-> 3],
       [type |-> <<"t","r","a","n","s","f","e","r">>, amount |-> 3] >>

exchange_entry(id) ==
    LET e == LedgerPattern[((id - 1) % Len(LedgerPattern)) + 1]
    IN  [id |-> id, type |-> e.type, amount |-> e.amount]

RECURSIVE SeqsUpTo(_, _)
SeqsUpTo(S, n) ==
    IF n = 0
    THEN {<<>>}
    ELSE LET shorter == SeqsUpTo(S, n - 1)
         IN  shorter \cup {Append(q, x) : q \in shorter, x \in S}

\* a fetched batch: entries of the exchange ledger, in any order, repeats allowed
Batches ==
    {[i \in DOMAIN q |-> exchange_entry(q[i])] : q \in SeqsUpTo(Ids, MaxBatch)}

(***************************************************************************)
(* CONFIG                                                                  *)
(***************************************************************************)
TARGET_NOTIONAL == 3000
LEVERAGE == 3
BASE_TOL_PCT == 1
ATR_LEN == 14
VOL_REF_ATR_PCT == 1
VOL_SCALE_MIN == Rat(1, 2)
VOL_SCALE_MAX == 3
EMA_SHORT_LEN == 10
EMA_LONG_LEN == 50
TREND_STRENGTH_MULT == 1
QTY_STEP == Rat(1, 10000)
MIN_TRADE_VALUE == 10
MAX_ORDER_RETRIES == 3

(***************************************************************************)
(* Indicators.  A candle list is summarised by its length, the mean true   *)
(* range of its last ATR_LEN candles and the EMA of its closes for each    *)
(* length: the values calculate_atr and calculate_ema return when the list *)
(* is long enough.                                                         *)
(***************************************************************************)
calculate_atr(ohlcvs, length) ==
    IF ohlcvs.len < length + 1 THEN None ELSE ohlcvs.atr

\* mutant of calculate_ema: one value fewer is accepted
calculate_ema_one_short(values, length) ==
    IF values.len < length - 1 THEN None ELSE values.ema[length]

calculate_ema(values, length) ==
    IF values.len < length THEN None ELSE values.ema[length]

(***************************************************************************)
(* compute_and_maybe_rebalance: the decision                               *)
(***************************************************************************)
vol_scale(atr, price) ==
    LET atr_pct == RMul(RDiv(atr, price), RInt(100))
        vol_scale_raw == RDiv(atr_pct, RInt(VOL_REF_ATR_PCT))
    IN  RMax(VOL_SCALE_MIN, RMin(RInt(VOL_SCALE_MAX), vol_scale_raw))

effective_tol_value(target_notional, scale) ==
    RMul(RMul(target_notional, RDiv(RInt(BASE_TOL_PCT), RInt(100))), scale)

trend_strength(ema_short, ema_long) ==
    LET ema_diff_pct ==
            RMul(RDiv(RAbs(RSub(ema_short, ema_long)), ema_long), RInt(100))
    IN  RMul(ema_diff_pct, RInt(TREND_STRENGTH_MULT))

\* 1.0 / (1.0 + min(trend_strength, 100.0) / 10.0)
trend_scale(strength) ==
    RInv(RAdd(RInt(1), RDiv(RMin(strength, RInt(100)), RInt(10))))

\* max(0.1, min(1.0, scale))
clamp_scale(scale) == RMax(Rat(1, 10), RMin(RInt(1), scale))

\* get_position: the snapshot of the exchange's position
get_position(pos) ==
    [qty |-> RAbs(pos),
     side |-> IF pos.n > 0 THEN "long" ELSE IF pos.n < 0 THEN "short" ELSE ""]

signed_pos_qty(pos) ==
    IF pos.side = "long" THEN pos.qty
    ELSE IF pos.side = "short" THEN RNeg(pos.qty)
    ELSE RInt(0)

round_qty(qty) == RMul(RInt(RFloor(RDiv(qty, QTY_STEP))), QTY_STEP)

raw_qty_needed(deviation_abs, price) == RDiv(deviation_abs, price)

should_rebalance_gate(deviation_abs, effective_tol, rounded_qty, price) ==
    /\ RLt(effective_tol, deviation_abs)
    /\ RLe(RInt(MIN_TRADE_VALUE), RMul(rounded_qty, price))

NoInstruction ==
    [should_rebalance |-> FALSE, final_side |-> "", final_qty |-> RInt(0),
     reduce_only |-> FALSE]

Instruction(side, qty, reduce_only) ==
    IF RLt(RInt(0), qty)
    THEN [should_rebalance |-> TRUE, final_side |-> side, final_qty |-> qty,
          reduce_only |-> reduce_only]
    ELSE NoInstruction

\* "if not ALLOW_SHORT: qty_after = min(qty_after, abs(pos_qty))"
cap_to_position(qty, pos_qty, allow_short) ==
    IF ~allow_short THEN RMin(qty, RAbs(pos_qty)) ELSE qty

\* deviation > 0: reduce the position, or do nothing when flat
over_exposed(pos_qty, rounded_qty, sell_scale, buy_scale, allow_short) ==
    IF RLt(RInt(0), pos_qty)
    THEN Instruction("sell",
             cap_to_position(RMul(rounded_qty, sell_scale), pos_qty, allow_short),
             TRUE)
    ELSE IF RLt(pos_qty, RInt(0))
    THEN Instruction("buy",
             cap_to_position(RMul(rounded_qty, buy_scale), pos_qty, allow_short),
             TRUE)
    ELSE NoInstruction

\* mutant of under_exposed: the buy is flagged reduce-only
under_exposed_reduce_only(rounded_qty, buy_scale) ==
    Instruction("buy", RMul(rounded_qty, buy_scale), TRUE)

\* deviation <= 0: buy
under_exposed(rounded_qty, buy_scale) ==
    Instruction("buy", RMul(rounded_qty, buy_scale), FALSE)

\* the body of "if should_rebalance:"
resolve_side(deviation, pos_qty, rounded_qty, sell_scale, buy_scale, allow_short) ==
    IF RLt(RInt(0), deviation)
    THEN over_exposed(pos_qty, rounded_qty, sell_scale, buy_scale, allow_short)
    ELSE under_exposed(rounded_qty, buy_scale)

\* mutant of min_trade_check: the damped quantity is not checked again
min_trade_check_off(instr, price) == instr

\* final_notional = final_qty * price; below MIN_TRADE_VALUE clears should_rebalance
min_trade_check(instr, price) ==
    IF RLt(RMul(instr.final_qty, price), RInt(MIN_TRADE_VALUE))
    THEN [instr EXCEPT !.should_rebalance = FALSE]
    ELSE instr

decide(price, atr, ema_short, ema_long, pos, allow_short) ==
    LET scale == vol_scale(atr, price)
        trend_up == RLt(ema_long, ema_short)
        trend_down == RLt(ema_short, ema_long)
        strength == trend_strength(ema_short, ema_long)
        target_notional == RInt(TARGET_NOTIONAL)
        effective_tol == effective_tol_value(target_notional, scale)
        pos_qty == signed_pos_qty(pos)
        pos_notional == RMul(RAbs(pos_qty), price)
        deviation == RSub(pos_notional, target_notional)
        deviation_abs == RAbs(deviation)
        rounded_qty == RMax(RInt(0), round_qty(raw_qty_needed(deviation_abs, price)))
        sell_scale == clamp_scale(IF trend_up THEN trend_scale(strength) ELSE RInt(1))
        buy_scale == clamp_scale(IF trend_down THEN trend_scale(strength) ELSE RInt(1))
        instr == IF should_rebalance_gate(deviation_abs, effective_tol, rounded_qty, price)
                 THEN resolve_side(deviation, pos_qty, rounded_qty,
                                   sell_scale, buy_scale, allow_short)
                 ELSE NoInstruction
        final == min_trade_check(instr, price)
    IN  [pos_qty |-> pos_qty,
         should_rebalance |-> final.should_rebalance,
         final_side |-> final.final_side,
         final_qty |-> final.final_qty,
         reduce_only |-> final.reduce_only]

\* check_order_margin: False when the margin needed exceeds the free balance
check_order_margin(qty, price, available_margin) ==
    ~RLt(available_margin, RDiv(RMul(qty, price), RInt(LEVERAGE)))

\* mutant of fill: the accepted order never changes the position
fill_never(pos, side, qty, reduce_only) == pos

\* the exchange fills an accepted market order; a reduce-only order cannot
\* open or flip a position
fill(pos, side, qty, reduce_only) ==
    LET after == IF side = "buy" THEN RAdd(pos, qty) ELSE RSub(pos, qty)
    IN  IF ~reduce_only THEN after
        ELSE IF pos.n > 0 /\ side = "sell" THEN RMax(RInt(0), after)
        ELSE IF pos.n < 0 /\ side = "buy" THEN RMin(RInt(0), after)
        ELSE pos

(***************************************************************************)
(* Inputs of a tick                                                        *)
(***************************************************************************)
Candles(len, atr, ema_short, ema_long) ==
    [len |-> len, atr |-> RInt(atr),
     ema |-> (EMA_SHORT_LEN :> RInt(ema_short)) @@ (EMA_LONG_LEN :> RInt(ema_long))]

AtrValues == {60, 300, 1200}

\* <<ema_short, ema_long>>: flat, up 10%, down 10%, up 100%, down 90%
EmaPairs ==
    { <<30000, 30000>>, <<33000, 30000>>, <<27000, 30000>>,
      <<60000, 30000>>, <<3000, 30000>> }

FullMarkets ==
    {[price |-> RInt(30000), ohlcvs |-> Candles(100, a, e[1], e[2])] :
        a \in AtrValues, e \in EmaPairs}
    \cup {[price |-> RInt(250000), ohlcvs |-> Candles(100, 500, 250000, 250000)]}

ShortMarkets ==
    {[price |-> RInt(30000), ohlcvs |-> Candles(len, 300, 33000, 30000)] :
        len \in {0, ATR_LEN, ATR_LEN + 1, EMA_LONG_LEN - 1}}
    \cup {[price |-> None, ohlcvs |-> Candles(100, 300, 33000, 30000)]}

Markets == FullMarkets \cup ShortMarkets

NoMarket == [price |-> None, ohlcvs |-> Candles(0, 0, 0, 0)]

\* the position at start, in coins
Positions ==
    {Rat(k, 10000) : k \in {0, 500, 994, 995, 1201, -501, -1201}}
    \cup {Rat(1192, 100000)}

\* exchange.fetch_ledger: it raises, or returns the ledger's entries since the
\* cut-off: first one entry, later that entry again with the ones after it
\* get_wallet_fund_records: the first j entries of the window; an exception
\* leaves the tracker alone
fetched(j) == [ok |-> TRUE, ledger |-> [k \in 1..j |-> exchange_entry(k)]]

Fetches == {[ok |-> FALSE, ledger |-> <<>>], fetched(1), fetched(MaxId)}

Margins == {RInt(100), RInt(10000)}

\* order attempts that raise before one succeeds
FailureCounts == {0, MAX_ORDER_RETRIES}

(***************************************************************************)
(* Direct calls on the tracker                                             *)
(***************************************************************************)
SetTracker(t) ==
    /\ seen_ids' = t.seen_ids
    /\ realized' = t.realized
    /\ funding_paid' = t.funding_paid
    /\ fees_paid' = t.fees_paid

tick_vars == <<config, market, position, tick, log_rows, orders>>

IngestEntry(entry) ==
    /\ SetTracker(ingest_ledger_entry(Tracker, entry))
    /\ call' = [op |-> "entry", arg |-> <<entry>>, before |-> Tracker]
    /\ UNCHANGED tick_vars

IngestBatch(ledger) ==
    /\ SetTracker(ingest_ledger_batch(Tracker, ledger))
    /\ call' = [op |-> "batch", arg |-> ledger, before |-> Tracker]
    /\ UNCHANGED tick_vars

(***************************************************************************)
(* compute_and_maybe_rebalance: one tick                                   *)
(***************************************************************************)
\* "turn" is the parity of the number of runs so far: the loop never stops
NoTick ==
    [status |-> "none", pos_qty |-> RInt(0), order_note |-> "",
     final_side |-> "", final_qty |-> RInt(0), reduce_only |-> FALSE, turn |-> 0]

next_turn == 1 - tick.turn

\* an early return: nothing but the printed message
Skip(message) ==
    /\ tick' = [NoTick EXCEPT !.status = message, !.turn = next_turn]
    /\ UNCHANGED <<ledger_vars, position, log_rows, orders>>

add_row(rows) == IF rows < MaxRows THEN rows + 1 ELSE rows

\* "if should_rebalance and final_qty > 0"
wants_order(d) == d.should_rebalance /\ RLt(RInt(0), d.final_qty)

\* the live branch: the margin check, then up to MAX_ORDER_RETRIES attempts
place_order(d, price, available_margin, failures) ==
    IF ~check_order_margin(d.final_qty, price, available_margin)
    THEN "skip_insufficient_margin"
    ELSE IF failures < MAX_ORDER_RETRIES THEN "order_placed"
    ELSE "order_failed"

\* the ledger is ingested, the order's effect lands, the log row is written
Finish(d, fetch, order_note) ==
    /\ SetTracker(IF fetch.ok
                  THEN ingest_ledger_batch(Tracker, fetch.ledger)
                  ELSE Tracker)
    /\ position' = IF order_note = "order_placed"
                   THEN fill(position, d.final_side, d.final_qty, d.reduce_only)
                   ELSE position
    /\ orders' = IF order_note = "order_placed" THEN add_row(orders) ELSE orders
    /\ log_rows' = add_row(log_rows)
    /\ tick' = [status |-> "done", pos_qty |-> d.pos_qty,
                order_note |-> order_note, final_side |-> d.final_side,
                final_qty |-> d.final_qty, reduce_only |-> d.reduce_only,
                turn |-> next_turn]

\* from the ledger fetch to the log row
Complete(d, price, fetches, margins, failure_counts) ==
    \E fetch \in fetches :
        IF ~wants_order(d) THEN Finish(d, fetch, "no_action")
        ELSE IF config.DRY_RUN THEN Finish(d, fetch, "dry_run")
        ELSE \E available_margin \in margins, failures \in failure_counts :
                Finish(d, fetch, place_order(d, price, available_margin, failures))

\* One run of compute_and_maybe_rebalance on the market data m.  The ledger
\* fetch, the free margin and the number of failing order attempts are the
\* exchange's answers, drawn after the decision is computed.
Tick(m, fetches, margins, failure_counts) ==
    LET price == m.price
        atr == calculate_atr(m.ohlcvs, ATR_LEN)
        ema_short == calculate_ema(m.ohlcvs, EMA_SHORT_LEN)
        ema_long == calculate_ema(m.ohlcvs, EMA_LONG_LEN)
    IN  /\ market' = m
        /\ UNCHANGED <<config, call>>
        /\ IF price = None THEN Skip("price_unavailable")
           ELSE IF atr = None THEN Skip("no_atr")
           ELSE IF ema_short = None \/ ema_long = None THEN Skip("no_ema")
           ELSE \E d \in {decide(price, atr, ema_short, ema_long,
                                 get_position(position), config.ALLOW_SHORT)} :
                    Complete(d, price, fetches, margins, failure_counts)

(***************************************************************************)
(* Specifications                                                          *)
(***************************************************************************)
InitTracker ==
    /\ seen_ids = {}
    /\ realized = 0
    /\ funding_paid = 0
    /\ fees_paid = 0
    /\ call = [op |-> "none", arg |-> <<>>, before |-> NewTracker]

Init ==
    /\ InitTracker
    /\ config \in [DRY_RUN : BOOLEAN, ALLOW_SHORT : BOOLEAN]
    /\ market = NoMarket
    /\ position \in Positions
    /\ tick = NoTick
    /\ log_rows = 0
    /\ orders = 0

\* the main loop, with the market moving between ticks
Next ==
    /\ log_rows < MaxRows
    /\ \E m \in Markets : Tick(m, Fetches, Margins, FailureCounts)

Spec == Init /\ [][Next]_vars

\* direct calls on the ledger tracker
LedgerNext ==
    \/ \E entry \in Entries : IngestEntry(entry)
    \/ \E ledger \in Batches : IngestBatch(ledger)

LedgerInit ==
    /\ InitTracker
    /\ config = [DRY_RUN |-> TRUE, ALLOW_SHORT |-> FALSE]
    /\ market = NoMarket
    /\ position = RInt(0)
    /\ tick = NoTick
    /\ log_rows = 0
    /\ orders = 0

LedgerSpec == LedgerInit /\ [][LedgerNext]_vars

\* the main loop with price, ATR and EMAs fixed, the ledger window fetched
\* whole, margin sufficient and every order accepted at the first attempt and
\* filled
LoopInit ==
    /\ InitTracker
    /\ config \in [DRY_RUN : {FALSE}, ALLOW_SHORT : BOOLEAN]
    /\ market \in FullMarkets
    /\ position \in Positions
    /\ tick = NoTick
    /\ log_rows = 0
    /\ orders = 0

LoopTick == Tick(market, {fetched(MaxId)}, {RInt(10000)}, {0})

LoopSpec == LoopInit /\ [][LoopTick]_vars /\ WF_vars(LoopTick)

(***************************************************************************)
(* Claims about the ledger tracker, checked under LedgerSpec               *)
(***************************************************************************)
Before == call.before

\* C1: ingesting the batch just ingested a second time changes nothing, and
\* ingesting any entry whose id is already in seen_ids changes nothing.
LedgerIdempotent ==
    /\ call.op = "batch" => ingest_ledger_batch(Tracker, call.arg) = Tracker
    /\ \A entry \in Entries :
          entry.id \in seen_ids => ingest_ledger_entry(Tracker, entry) = Tracker

BatchIngestedWithEffect ==
    /\ call.op = "batch"
    /\ Len(call.arg) = MaxBatch
    /\ Before.seen_ids # {}
    /\ Tracker # Before

\* the types of EntryTypes by the class the claim gives them, case ignored
RealizedLike == REALIZED_TYPES \cup { <<"P","n","L">> }

FundingLike == { FUNDING_TYPE, <<"F","u","n","d","i","n","g","_","F","e","e">> }

FeeLike == FEE_TYPES \cup { <<"F","E","E">>, <<"T","r","a","d","e","_","F","e","e">> }

\* C7: an entry with an unseen id is marked seen and changes exactly the total
\* of its class: realized and funding by the signed amount, fees by |amount|,
\* any other type none.
ClassifiedByType ==
    (call.op = "entry" /\ call.arg[1].id \notin Before.seen_ids) =>
        LET entry == call.arg[1]
            dr == IF entry.type \in RealizedLike THEN entry.amount ELSE 0
            df == IF entry.type \in FundingLike THEN entry.amount ELSE 0
            dp == IF entry.type \in FeeLike THEN Abs(entry.amount) ELSE 0
        IN  /\ seen_ids = Before.seen_ids \cup {entry.id}
            /\ realized = Before.realized + dr
            /\ funding_paid = Before.funding_paid + df
            /\ fees_paid = Before.fees_paid + dp

UpperCaseFeeIngested ==
    /\ call.op = "entry"
    /\ call.arg[1].id \notin Before.seen_ids
    /\ call.arg[1].type = <<"F","E","E">>
    /\ call.arg[1].amount = -5
    /\ fees_paid = Before.fees_paid + 5
    /\ realized = Before.realized
    /\ funding_paid = Before.funding_paid

\* C8 as stated: from one step to the next, none of |realized|,
\* |funding_paid| and fees_paid decreases.
TotalsMagnitudeMonotone ==
    [][/\ Abs(realized') >= Abs(realized)
       /\ Abs(funding_paid') >= Abs(funding_paid)
       /\ fees_paid' >= fees_paid]_vars

\* C8 amended: from one step to the next, fees_paid never decreases and
\* seen_ids never loses an id.
FeesAndSeenMonotone ==
    [][fees_paid' >= fees_paid /\ seen_ids \subseteq seen_ids']_vars

FeesGrewTwice ==
    /\ Before.fees_paid > 0
    /\ fees_paid > Before.fees_paid
    /\ Before.seen_ids # seen_ids

PermutationsOf(q) ==
    {[i \in DOMAIN q |-> q[p[i]]] : p \in Permutations(DOMAIN q)}

TickDone == tick.status = "done"

TradeProduced == TickDone /\ tick.order_note # "no_action"

InputPrice == market.price

InputVolScale ==
    LET raw == RDiv(RMul(market.ohlcvs.atr, RInt(100)),
                    RMul(InputPrice, RInt(VOL_REF_ATR_PCT)))
    IN  IF RLt(raw, VOL_SCALE_MIN) THEN VOL_SCALE_MIN
        ELSE IF RLt(RInt(VOL_SCALE_MAX), raw) THEN RInt(VOL_SCALE_MAX)
        ELSE raw

InputTolerance ==
    RMul(Rat(TARGET_NOTIONAL * BASE_TOL_PCT, 100), InputVolScale)

NotionalOf(qty) == RMul(RAbs(qty), InputPrice)

InputDeviation == RSub(NotionalOf(tick.pos_qty), RInt(TARGET_NOTIONAL))

OutsideBand == RLt(InputTolerance, RAbs(InputDeviation))

FinalNotionalEnough == RLe(RInt(MIN_TRADE_VALUE), NotionalOf(tick.final_qty))

DataUnavailable(m) ==
    \/ m.price = None
    \/ m.ohlcvs.len < ATR_LEN + 1
    \/ m.ohlcvs.len < EMA_SHORT_LEN
    \/ m.ohlcvs.len < EMA_LONG_LEN

\* C2: a tick whose price is absent, or whose candles are too few for the ATR
\* or for either EMA, submits no order, leaves the ledger tracker as it was
\* and appends no log row.
AbortLeavesNoTrace ==
    [][DataUnavailable(market') =>
          UNCHANGED <<seen_ids, realized, funding_paid, fees_paid,
                      log_rows, orders, position>>]_vars

AbortedAfterCompletedTick ==
    /\ DataUnavailable(market)
    /\ tick.status \in {"price_unavailable", "no_atr", "no_ema"}
    /\ log_rows > 0
    /\ seen_ids # {}

\* C3: an order is submitted or announced only if the deviation is outside
\* the effective tolerance and the final quantity is worth MIN_TRADE_VALUE or
\* more; otherwise the tick ends no_action and the position is untouched.
OrderGate ==
    TickDone =>
        /\ tick.order_note \in {"dry_run", "order_placed"} =>
              (OutsideBand /\ FinalNotionalEnough)
        /\ ~(OutsideBand /\ FinalNotionalEnough) =>
              (tick.order_note = "no_action" /\ position = tick.pos_qty)

DampedOrderPlaced ==
    /\ TickDone
    /\ tick.order_note = "order_placed"
    /\ position # tick.pos_qty
    /\ RLt(NotionalOf(tick.final_qty), RAbs(InputDeviation))

\* C4: the quantity of every trade instruction is a non-negative whole
\* multiple of QTY_STEP.
FinalQtyQuantized ==
    TradeProduced =>
        /\ tick.final_qty.n >= 0
        /\ RDiv(tick.final_qty, QTY_STEP).d = 1

PositionAfterFill ==
    IF tick.final_side = "buy"
    THEN RAdd(tick.pos_qty, tick.final_qty)
    ELSE RSub(tick.pos_qty, tick.final_qty)

\* C5: a reduce-only instruction is for a non-flat position, on the opposite
\* side, for at most the position's magnitude when ALLOW_SHORT is off; filling
\* it makes the position strictly smaller and does not flip it.
ReduceOnlyReduces ==
    (TradeProduced /\ tick.reduce_only) =>
        /\ tick.pos_qty.n # 0
        /\ tick.final_side = IF tick.pos_qty.n > 0 THEN "sell" ELSE "buy"
        /\ RLt(RInt(0), tick.final_qty)
        /\ ~config.ALLOW_SHORT => RLe(tick.final_qty, RAbs(tick.pos_qty))
        /\ RLt(RAbs(PositionAfterFill), RAbs(tick.pos_qty))
        /\ PositionAfterFill.n * tick.pos_qty.n >= 0
        /\ tick.order_note = "order_placed" => position = PositionAfterFill

ShortReducedByOrder ==
    /\ TradeProduced
    /\ tick.reduce_only
    /\ tick.pos_qty.n < 0
    /\ tick.order_note = "order_placed"
    /\ ~config.ALLOW_SHORT

\* C6: with deviation <= 0 every instruction is a buy that is not reduce-only,
\* whatever the position's side, and filling it increases the exposure
\* |signed quantity| * price.
UnderExposedBuyRaisesExposure ==
    (TradeProduced /\ RLe(InputDeviation, RInt(0))) =>
        /\ tick.final_side = "buy"
        /\ ~tick.reduce_only
        /\ RLt(NotionalOf(tick.pos_qty), NotionalOf(PositionAfterFill))

(***************************************************************************)
(* Claims about the loop with the market fixed, checked under LoopSpec     *)
(***************************************************************************)
\* C10 as stated: the loop reaches a tick where the deviation is inside the
\* tolerance band, and from there every tick is no_action.
ConvergesToBand ==
    <>[](TickDone /\ tick.order_note = "no_action" /\ ~OutsideBand)

Settled ==
    /\ TickDone
    /\ tick.order_note = "no_action"
    /\ position = tick.pos_qty
    /\ ~OutsideBand \/ ~FinalNotionalEnough

\* C10 amended: the loop reaches a tick from which every tick is no_action,
\* and there the deviation is inside the band or the damped quantity is worth
\* less than MIN_TRADE_VALUE.
EventuallySettled == <>[]Settled

SettledInsideBandAfterFills ==
    /\ Settled
    /\ ~OutsideBand
    /\ orders = MaxRows
    /\ market.ohlcvs.ema[EMA_SHORT_LEN] # market.ohlcvs.ema[EMA_LONG_LEN]

====
